---- MODULE Spec2Model ----
(***************************************************************************)
(* VerticalTile layout of libqtile (libqtile/layout/verticaltile.py).      *)
(*                                                                         *)
(* The layout keeps an ordered client list with a cursor, an optional      *)
(* maximized client and a master ratio, and computes for each client the   *)
(* rectangle it occupies on a screen.                                      *)
(*                                                                         *)
(* Python floats are IEEE-754 binary64.  Every ratio the layout can hold   *)
(* is a multiple of 2^-57 below 1, so a ratio is modelled exactly as the   *)
(* integer ratio * 2^57, written as three limbs <<l0, l1, l2>> of 19 bits  *)
(* (value = l0 + l1 * 2^19 + l2 * 2^38).  Sums, differences and products   *)
(* are computed exactly and then rounded to 53 significant bits, ties to   *)
(* even, as the hardware does.                                             *)
(***************************************************************************)
EXTENDS Integers, Naturals, Sequences, FiniteSets, TLC

\* ---------------------------------------------------------------- bounds
\* windows the group holds while the layout runs its commands
MaxClients == 2
\* panes, screen heights, border widths and margins configure is checked on
MaxPanes == 3
MaxHeight == 10
MaxBorder == 1
MaxMargin == 3

Windows == 1..MaxClients
Panes == 1..MaxPanes
None == 0

\* ------------------------------------------------- binary64 arithmetic
Limb == 524288

RECURSIVE BitLen(_)
BitLen(k) == IF k = 0 THEN 0 ELSE 1 + BitLen(k \div 2)

RECURSIVE Pow2(_)
Pow2(e) == IF e = 0 THEN 1 ELSE 2 * Pow2(e - 1)

\* carry propagation: the two low limbs are brought back into 0..Limb-1
Norm(l0, l1, l2) ==
    LET t1 == l1 + (l0 \div Limb)
    IN  <<l0 % Limb, t1 % Limb, l2 + (t1 \div Limb)>>

\* round an exact result to 53 significant bits, ties to even
Round53(x) ==
    LET len == IF x[3] > 0 THEN 38 + BitLen(x[3]) ELSE 0
        d   == len - 53
    IN  IF d <= 0 THEN x
        ELSE LET u    == Pow2(d)
                 rem  == x[1] % u
                 half == u \div 2
                 odd  == (x[1] \div u) % 2 = 1
                 up   == rem > half \/ (rem = half /\ odd)
             IN  Norm(x[1] - rem + (IF up THEN u ELSE 0), x[2], x[3])

DLess(a, b) ==
    \/ a[3] < b[3]
    \/ a[3] = b[3] /\ a[2] < b[2]
    \/ a[3] = b[3] /\ a[2] = b[2] /\ a[1] < b[1]

DAdd(a, b) == Round53(Norm(a[1] + b[1], a[2] + b[2], a[3] + b[3]))

\* a - b for b < a
DSub(a, b) ==
    Round53(Norm(a[1] - b[1] + Limb, a[2] - b[2] + Limb - 1, a[3] - b[3] - 1))

\* float(h) * a for an integer 0 <= h < 4096
DMulInt(h, a) == Round53(Norm(h * a[1], h * a[2], h * a[3]))

\* int(a): truncation of a non-negative float
DInt(a) == a[3] \div Limb

DZero == <<0, 0, 0>>
DOne == <<0, 0, Limb>>

\* ratio = 0.75 and steps = 0.05 as binary64 values
ratio0 == <<0, 0, 393216>>
steps == <<104858, 209715, 26214>>

\* ---------------------------------------------------------------- state
VARIABLES
    clients,        \* self.clients: the ordered client list
    current,        \* the cursor of the client list, 0-based
    maximized,      \* self.maximized: a window or None
    ratio,          \* self.ratio
    border_width,   \* self.border_width
    margin,         \* self.margin: [is_list, val]
    screen_rect,    \* the rectangle the host lays the group out in
    last,           \* the operation that ran last
    calls,          \* the host calls that operation made, in order
    rhist           \* the grow()/shrink() calls of the latest run of them

vars == <<clients, current, maximized, ratio, border_width, margin,
          screen_rect, last, calls, rhist>>

config == <<border_width, margin, screen_rect>>

n == Len(clients)
Members == {clients[i] : i \in 1..Len(clients)}
Index(w) == (CHOOSE i \in 1..Len(clients) : clients[i] = w) - 1
current_client == IF clients = <<>> THEN None ELSE clients[current + 1]


\* ------------------------------------------------ the client list
\* insertion with a position hint: the new client goes to index `hint`
\* of the list, or to its end when the list is shorter
list_add(w, hint) ==
    LET pos == IF hint < Len(clients) THEN hint ELSE Len(clients)
    IN  SubSeq(clients, 1, pos) \o <<w>> \o SubSeq(clients, pos + 1, Len(clients))

list_remove(w) == SelectSeq(clients, LAMBDA c : c # w)

Swap(s, i, j) == [s EXCEPT ![i] = s[j], ![j] = s[i]]

\* the cursor positions a list of length k allows
Cursors(k) == IF k = 0 THEN {0} ELSE 0..(k - 1)

\* where the cursor may be after add and after remove: any position of the
\* new list; removing a window that is not in the list moves nothing
CursorsAfterAdd == Cursors(Len(clients) + 1)

CursorsAfterRemove(w) ==
    IF w \in Members THEN Cursors(Len(clients) - 1) ELSE {current}

\* shuffle up / down: the cursor's client trades places with its neighbour
\* and the cursor follows it; <<list, cursor>>
list_shuffle_up ==
    IF current > 0
    THEN <<Swap(clients, current + 1, current), current - 1>>
    ELSE <<clients, current>>

list_shuffle_down ==
    IF current + 1 < Len(clients)
    THEN <<Swap(clients, current + 1, current + 2), current + 1>>
    ELSE <<clients, current>>

\* cyclic cursor movement
list_next == IF clients = <<>> THEN current ELSE (current + 1) % Len(clients)

list_previous ==
    IF clients = <<>> THEN current ELSE (current + Len(clients) - 1) % Len(clients)

\* ------------------------------------------------ host calls
LayoutAllCall(c, m, r) ==
    [fn |-> "layout_all", clients |-> c, maximized |-> m, ratio |-> r]

\* the record of an operation: its name, its window argument, the value
\* of self.maximized when it started, and whether it changed the ratio,
\* the maximized reference or the client order
Op(name, w) ==
    [op |-> name, window |-> w, maximized |-> maximized,
     changed |-> <<ratio', maximized', clients'>> # <<ratio, maximized, clients>>]

NoOp == [op |-> "init", window |-> None, maximized |-> None, changed |-> FALSE]

Push(h, e) == IF Len(h) < 2 THEN Append(h, e) ELSE <<h[2], e>>

\* ------------------------------------------------ ratio steps
GrowAppliesLate(r) == DLess(r, DOne)

GrowApplies(r) == DLess(DAdd(r, steps), DOne)

ShrinkApplies(r) == DLess(steps, r) /\ DLess(DZero, DSub(r, steps))

GrowRatio(r) == IF GrowApplies(r) THEN DAdd(r, steps) ELSE r

ShrinkRatioTwice(r) ==
    IF ShrinkApplies(r)
    THEN IF DLess(steps, DSub(r, steps)) THEN DSub(DSub(r, steps), steps)
         ELSE DSub(r, steps)
    ELSE r

ShrinkRatio(r) == IF ShrinkApplies(r) THEN DSub(r, steps) ELSE r

\* the body of grow(): what it does to ratio, and the relayout it requests
grow_call ==
    /\ ratio' = GrowRatio(ratio)
    /\ calls' = IF GrowApplies(ratio)
                THEN <<LayoutAllCall(clients, maximized, GrowRatio(ratio))>>
                ELSE <<>>
    /\ rhist' = Push(rhist, [fn |-> "grow", from |-> ratio, to |-> GrowRatio(ratio)])

shrink_call ==
    /\ ratio' = ShrinkRatio(ratio)
    /\ calls' = IF ShrinkApplies(ratio)
                THEN <<LayoutAllCall(clients, maximized, ShrinkRatio(ratio))>>
                ELSE <<>>
    /\ rhist' = Push(rhist, [fn |-> "shrink", from |-> ratio, to |-> ShrinkRatio(ratio)])

\* ------------------------------------------------ operations
add(w) ==
    /\ w \notin Members
    /\ clients' = list_add(w, 1)
    /\ \E c \in CursorsAfterAdd : current' = c
    /\ calls' = <<>>
    /\ rhist' = <<>>
    /\ UNCHANGED <<maximized, ratio, config>>
    /\ last' = Op("add", w)

removeKeepMaximized(w) ==
    /\ clients' = list_remove(w)
    /\ \E c \in CursorsAfterRemove(w) : current' = c
    /\ calls' = <<>>
    /\ rhist' = <<>>
    /\ UNCHANGED <<maximized, ratio, config>>
    /\ last' = Op("remove", w)

remove(w) ==
    /\ maximized' = IF maximized = w THEN None ELSE maximized
    /\ clients' = list_remove(w)
    /\ \E c \in CursorsAfterRemove(w) : current' = c
    /\ calls' = <<>>
    /\ rhist' = <<>>
    /\ UNCHANGED <<ratio, config>>
    /\ last' = Op("remove", w)

grow ==
    /\ grow_call
    /\ UNCHANGED <<clients, current, maximized, config>>
    /\ last' = Op("grow", None)

shrink ==
    /\ shrink_call
    /\ UNCHANGED <<clients, current, maximized, config>>
    /\ last' = Op("shrink", None)

cmd_next ==
    /\ current' = list_next
    /\ calls' = <<>>
    /\ rhist' = <<>>
    /\ UNCHANGED <<clients, maximized, ratio, config>>
    /\ last' = Op("cmd_next", None)

cmd_previous ==
    /\ current' = list_previous
    /\ calls' = <<>>
    /\ rhist' = <<>>
    /\ UNCHANGED <<clients, maximized, ratio, config>>
    /\ last' = Op("cmd_previous", None)

cmd_shuffle_up ==
    /\ clients' = list_shuffle_up[1]
    /\ current' = list_shuffle_up[2]
    /\ calls' = <<LayoutAllCall(clients', maximized, ratio)>>
    /\ rhist' = <<>>
    /\ UNCHANGED <<maximized, ratio, config>>
    /\ last' = Op("cmd_shuffle_up", None)

cmd_shuffle_down ==
    /\ clients' = list_shuffle_down[1]
    /\ current' = list_shuffle_down[2]
    /\ calls' = <<LayoutAllCall(clients', maximized, ratio)>>
    /\ rhist' = <<>>
    /\ UNCHANGED <<maximized, ratio, config>>
    /\ last' = Op("cmd_shuffle_down", None)

cmd_maximize ==
    /\ IF clients # <<>>
       THEN /\ maximized' = current_client
            /\ calls' = <<LayoutAllCall(clients, current_client, ratio)>>
       ELSE /\ maximized' = maximized
            /\ calls' = <<>>
    /\ rhist' = <<>>
    /\ UNCHANGED <<clients, current, ratio, config>>
    /\ last' = Op("cmd_maximize", None)

cmd_normalizeSilent ==
    /\ maximized' = None
    /\ calls' = <<>>
    /\ rhist' = <<>>
    /\ UNCHANGED <<clients, current, ratio, config>>
    /\ last' = Op("cmd_normalize", None)

cmd_normalize ==
    /\ maximized' = None
    /\ calls' = <<LayoutAllCall(clients, None, ratio)>>
    /\ rhist' = <<>>
    /\ UNCHANGED <<clients, current, ratio, config>>
    /\ last' = Op("cmd_normalize", None)

cmd_growSameSense ==
    /\ IF maximized = None
       THEN UNCHANGED <<ratio>> /\ calls' = <<>> /\ rhist' = <<>>
       ELSE grow_call
    /\ UNCHANGED <<clients, current, maximized, config>>
    /\ last' = Op("cmd_grow", None)

cmd_grow ==
    /\ IF maximized = None
       THEN UNCHANGED <<ratio>> /\ calls' = <<>> /\ rhist' = <<>>
       ELSE IF current_client = maximized THEN grow_call ELSE shrink_call
    /\ UNCHANGED <<clients, current, maximized, config>>
    /\ last' = Op("cmd_grow", None)

cmd_shrink ==
    /\ IF maximized = None
       THEN UNCHANGED <<ratio>> /\ calls' = <<>> /\ rhist' = <<>>
       ELSE IF current_client = maximized THEN shrink_call ELSE grow_call
    /\ UNCHANGED <<clients, current, maximized, config>>
    /\ last' = Op("cmd_shrink", None)


\* ------------------------------------------------ configure: geometry
\* the local border_width of configure
border == IF n > 1 THEN border_width ELSE 0

border_color(has_focus) == IF has_focus THEN "border_focus" ELSE "border_normal"

width == IF n > 1 THEN screen_rect.width - border_width * 2 ELSE screen_rect.width

main_area_height == DInt(DMulInt(screen_rect.height, ratio))

sec_area_height == screen_rect.height - main_area_height

main_pane_height == main_area_height - border * 2

sec_pane_heightOverN == (sec_area_height \div n) - border * 2

sec_pane_height == (sec_area_height \div (n - 1)) - border * 2

normal_pane_heightNoBorder == screen_rect.height \div n

normal_pane_height == (screen_rect.height \div n) - (border * 2)

height(w) ==
    IF n > 1
    THEN IF maximized # None
         THEN IF w = maximized THEN main_pane_height ELSE sec_pane_height
         ELSE normal_pane_height
    ELSE screen_rect.height

yUncorrected(w) ==
    IF n > 1
    THEN IF maximized # None
         THEN screen_rect.y + (Index(w) * sec_pane_height) + (border * 2 * Index(w))
         ELSE screen_rect.y + (Index(w) * normal_pane_height) + (border * 2 * Index(w))
    ELSE screen_rect.y

y(w) ==
    IF n > 1
    THEN LET y1 == IF maximized # None
                   THEN screen_rect.y + (Index(w) * sec_pane_height)
                                      + (border * 2 * Index(w))
                   ELSE screen_rect.y + (Index(w) * normal_pane_height)
                                      + (border * 2 * Index(w))
         IN  IF maximized # None /\ w # maximized /\ Index(w) > Index(maximized)
             THEN y1 - sec_pane_height + main_pane_height
             ELSE y1
    ELSE screen_rect.y

\* ------------------------------------------------ configure: margins
\* Python's round() of the rational num / den (den > 0): to the nearest
\* integer, a tie going to the even one
round(num, den) ==
    LET q == IF num >= 0 THEN num \div den ELSE -(((-num) + den - 1) \div den)
        r == num - q * den
    IN  IF 2 * r < den THEN q
        ELSE IF 2 * r > den THEN q + 1
        ELSE IF q % 2 = 0 THEN q ELSE q + 1

\* margin_size after the isinstance test: always four values [N, E, S, W]
margin_list ==
    IF margin.is_list THEN margin.val
    ELSE <<margin.val[1], margin.val[1], margin.val[1], margin.val[1]>>

\* (m + 0.1) / 2 is the rational (10 m + 1) / 20, (m - 0.1) / 2 is
\* (10 m - 1) / 20; neither is within 0.05 of a tie, so the binary64
\* value rounds as the rational does
margin_sizeUnbiased(w) ==
    <<IF w # clients[1] /\ clients[1] # clients[Len(clients)]
      THEN round(margin_list[1], 2) ELSE margin_list[1],
      margin_list[2],
      IF w # clients[Len(clients)] /\ clients[1] # clients[Len(clients)]
      THEN round(margin_list[3], 2) ELSE margin_list[3],
      margin_list[4]>>

margin_size(w) ==
    <<IF w # clients[1] /\ clients[1] # clients[Len(clients)]
      THEN round(10 * margin_list[1] + 1, 20) ELSE margin_list[1],
      margin_list[2],
      IF w # clients[Len(clients)] /\ clients[1] # clients[Len(clients)]
      THEN round(10 * margin_list[3] - 1, 20) ELSE margin_list[3],
      margin_list[4]>>

\* ------------------------------------------------ configure
PlaceCall(w, has_focus) ==
    [fn |-> "place", window |-> w, x |-> screen_rect.x, y |-> y(w),
     width |-> width, height |-> height(w), border_width |-> border,
     border_color |-> border_color(has_focus), margin |-> margin_size(w)]

WindowCall(name, w) == [fn |-> name, window |-> w]

configureAlwaysHide(w, has_focus) ==
    /\ calls' = <<WindowCall("hide", w)>>
    /\ rhist' = <<>>
    /\ UNCHANGED <<clients, current, maximized, ratio, config>>
    /\ last' = Op("configure", w)

configure(w, has_focus) ==
    /\ calls' = IF clients # <<>> /\ w \in Members
                THEN <<PlaceCall(w, has_focus), WindowCall("unhide", w)>>
                ELSE <<WindowCall("hide", w)>>
    /\ rhist' = <<>>
    /\ UNCHANGED <<clients, current, maximized, ratio, config>>
    /\ last' = Op("configure", w)

\* ------------------------------------------------ specifications
ExampleRect == [x |-> 0, y |-> 0, width |-> 800, height |-> 800]

ScreenRects ==
    {ExampleRect} \cup
    {[x |-> 2, y |-> 4, width |-> 20, height |-> h] : h \in 0..MaxHeight}

Margins ==
    {[is_list |-> FALSE, val |-> <<m>>] : m \in 0..MaxMargin} \cup
    {[is_list |-> TRUE, val |-> v] : v \in [1..4 -> 0..MaxMargin]}

DefaultMargin == [is_list |-> FALSE, val |-> <<0>>]

RECURSIVE Closure(_)
Closure(S) ==
    LET T == S \cup {GrowRatio(r) : r \in S} \cup {ShrinkRatio(r) : r \in S}
    IN  IF T = S THEN S ELSE Closure(T)

\* the ratios grow() and shrink() can reach from the initial 0.75
ReachableRatios == Closure({ratio0})

\* the layout as constructed with the default configuration
Init ==
    /\ clients = <<>>
    /\ current = 0
    /\ maximized = None
    /\ ratio = ratio0
    /\ border_width = 1
    /\ margin = DefaultMargin
    /\ screen_rect = ExampleRect
    /\ last = NoOp
    /\ calls = <<>>
    /\ rhist = <<>>

Next ==
    \/ \E w \in Windows : add(w)
    \/ \E w \in Windows : remove(w)
    \/ \E w \in Windows : \E f \in BOOLEAN : configure(w, f)
    \/ grow
    \/ shrink
    \/ cmd_next
    \/ cmd_previous
    \/ cmd_shuffle_up
    \/ cmd_shuffle_down
    \/ cmd_maximize
    \/ cmd_normalize
    \/ cmd_grow
    \/ cmd_shrink

Spec == Init /\ [][Next]_vars

\* configure as a function of its inputs: any screen rectangle, border
\* width, client count, maximized client and reachable ratio
InitGeom ==
    /\ clients \in {[i \in 1..k |-> i] : k \in 0..MaxPanes}
    /\ current = 0
    /\ maximized \in {None} \cup Members
    /\ ratio \in ReachableRatios
    /\ border_width \in 0..MaxBorder
    /\ margin = DefaultMargin
    /\ screen_rect \in ScreenRects
    /\ last = NoOp
    /\ calls = <<>>
    /\ rhist = <<>>

NextGeom == \E w \in Panes : \E f \in BOOLEAN : configure(w, f)

SpecGeom == InitGeom /\ [][NextGeom]_vars

\* the margins of configure for any margin option, int or list
InitMargin ==
    /\ clients \in {[i \in 1..k |-> i] : k \in 0..MaxPanes}
    /\ current = 0
    /\ maximized \in {None} \cup Members
    /\ ratio = ratio0
    /\ border_width = 1
    /\ margin \in Margins
    /\ screen_rect = ExampleRect
    /\ last = NoOp
    /\ calls = <<>>
    /\ rhist = <<>>

NextMargin == \E w \in Panes : \E f \in BOOLEAN : configure(w, f)

SpecMargin == InitMargin /\ [][NextMargin]_vars


\* grow and shrink from any ratio strictly between 0 and 1: the initial
\* 0.75, the step itself, 0.3, 0.5, the least positive ratio on the grid
\* (2^-57) and the greatest binary64 value below 1 (1 - 2^-53)
StartRatios ==
    {ratio0, steps, <<104856, 209715, 157286>>, <<0, 0, 262144>>,
     <<1, 0, 0>>, <<524272, 524287, 524287>>}

InitRatio ==
    /\ clients \in {[i \in 1..k |-> i] : k \in 0..MaxClients}
    /\ current \in Cursors(Len(clients))
    /\ maximized \in {None} \cup Members
    /\ ratio \in StartRatios
    /\ border_width = 1
    /\ margin = DefaultMargin
    /\ screen_rect = ExampleRect
    /\ last = NoOp
    /\ calls = <<>>
    /\ rhist = <<>>

NextRatio ==
    \/ grow
    \/ shrink
    \/ cmd_grow
    \/ cmd_shrink

SpecRatio == InitRatio /\ [][NextRatio]_vars

\* ================================================================ claims
RatioOps == {"grow", "shrink", "cmd_grow", "cmd_shrink"}

\* the grow()/shrink() call the last operation made, if it made one
LastCall == rhist[Len(rhist)]
Called(f) == last.op \in RatioOps /\ rhist # <<>> /\ LastCall.fn = f

Placed(w) ==
    /\ last.op = "configure" /\ last.window = w
    /\ Len(calls) = 2
    /\ calls[1].fn = "place" /\ calls[1].window = w
    /\ calls[2] = WindowCall("unhide", w)

Relayout ==
    /\ calls # <<>>
    /\ calls[Len(calls)] = LayoutAllCall(clients, maximized, ratio)

RECURSIVE SumHeights(_)
SumHeights(i) == IF i = 0 THEN 0 ELSE height(clients[i]) + SumHeights(i - 1)

\* C1: maximized is always unset or a member of the client list, and
\* right after remove(w) of the maximized client w it is unset.
C1_MaximizedIsClient ==
    /\ maximized = None \/ maximized \in Members
    /\ (last.op = "remove" /\ last.maximized = last.window) => maximized = None

C1_Witness ==
    /\ last.op = "remove" /\ last.maximized = last.window /\ last.window # None
    /\ maximized = None /\ clients # <<>>

\* C2: from any starting ratio in (0,1), after any sequence of grow,
\* shrink, cmd_grow and cmd_shrink the ratio is strictly between 0 and 1,
\* and a call whose step would reach or cross a bound leaves it unchanged.
C2_RatioInside ==
    /\ DLess(DZero, ratio) /\ DLess(ratio, DOne)
    /\ (last.op \in RatioOps /\ rhist # <<>>) =>
          /\ (LastCall.fn = "grow" /\ ~DLess(DAdd(LastCall.from, steps), DOne))
                => ratio = LastCall.from
          /\ (LastCall.fn = "shrink" /\ ~DLess(steps, LastCall.from))
                => ratio = LastCall.from

C2_Witness ==
    /\ Called("grow") /\ LastCall.from = ratio /\ LastCall.to = ratio
    /\ ~DLess(DAdd(ratio, steps), DOne)
    /\ Len(rhist) = 2 /\ rhist[1].fn = "grow" /\ rhist[1].from # rhist[1].to

\* C3 as stated: grow() then shrink(), or shrink() then grow(), leaves
\* the ratio exactly as it was before the two calls.
C3_Original ==
    (/\ last.op \in RatioOps /\ Len(rhist) = 2
     /\ rhist[1].fn # rhist[2].fn)
        => ratio = rhist[1].from

\* C3 amended: when the first of the two calls is not rejected, grow()
\* then shrink(), or shrink() then grow(), leaves the ratio exactly as it
\* was before the two calls.
C3_RoundTrip ==
    (/\ last.op \in RatioOps /\ Len(rhist) = 2
     /\ rhist[1].fn # rhist[2].fn
     /\ rhist[1].to # rhist[1].from)
        => ratio = rhist[1].from

C3_Witness ==
    /\ last.op = "shrink" /\ Len(rhist) = 2
    /\ rhist[1].fn = "grow" /\ rhist[2].fn = "shrink"
    /\ rhist[1].to # rhist[1].from /\ rhist[2].to # rhist[2].from
    /\ ratio = rhist[1].from /\ ratio # ratio0

\* C4 as stated: each of add, remove, maximize, normalize, grow, shrink,
\* shuffle up and shuffle down that changed the ratio, the maximized
\* reference or the client order has requested a relayout after the change.
C4_Original ==
    (/\ last.op \in {"add", "remove", "cmd_maximize", "cmd_normalize", "grow",
                     "shrink", "cmd_shuffle_up", "cmd_shuffle_down"}
     /\ last.changed)
        => Relayout

\* C4 amended: each of maximize, normalize, grow, shrink, cmd_grow,
\* cmd_shrink, shuffle up and shuffle down that changed the ratio, the
\* maximized reference or the client order has requested a relayout after
\* the change; add and remove request none.
C4_RelayoutAfterChange ==
    /\ (/\ last.op \in {"cmd_maximize", "cmd_normalize", "grow", "shrink",
                        "cmd_grow", "cmd_shrink", "cmd_shuffle_up",
                        "cmd_shuffle_down"}
        /\ last.changed)
           => Relayout
    /\ last.op \in {"add", "remove"} => calls = <<>>

C4_Witness ==
    /\ last.op = "cmd_normalize" /\ last.changed /\ last.maximized # None
    /\ Relayout /\ Len(clients) > 1

\* C5: cmd_grow and cmd_shrink leave the ratio alone when maximized is
\* unset; on the maximized client cmd_grow never decreases the ratio and
\* cmd_shrink never increases it; on any other client the sense is
\* inverted; neither changes maximized or the client order.
C5_DirectionAware ==
    [][/\ last'.op = "cmd_grow" =>
            /\ maximized = None => ratio' = ratio
            /\ (maximized # None /\ current_client = maximized)
                  => ~DLess(ratio', ratio)
            /\ (maximized # None /\ current_client # maximized)
                  => ~DLess(ratio, ratio')
            /\ maximized' = maximized /\ clients' = clients
       /\ last'.op = "cmd_shrink" =>
            /\ maximized = None => ratio' = ratio
            /\ (maximized # None /\ current_client = maximized)
                  => ~DLess(ratio, ratio')
            /\ (maximized # None /\ current_client # maximized)
                  => ~DLess(ratio', ratio)
            /\ maximized' = maximized /\ clients' = clients]_vars

C5_Witness ==
    /\ last.op = "cmd_grow" /\ maximized # None /\ current_client # maximized
    /\ Called("shrink") /\ DLess(LastCall.to, LastCall.from)
    /\ ratio = LastCall.to

\* C6: with no maximized client and n >= 1 clients, the heights configure
\* assigns, plus 2 * border_width * n when n > 1, sum to at most the screen
\* height and fall short of it by less than n; one client gets the screen
\* height exactly.
C6_NormalHeights ==
    (maximized = None /\ n >= 1) =>
        LET total == SumHeights(n) + (IF n > 1 THEN 2 * border_width * n ELSE 0)
        IN  /\ total <= screen_rect.height
            /\ screen_rect.height - total < n
            /\ n = 1 => height(clients[1]) = screen_rect.height

C6_Witness ==
    /\ maximized = None /\ n = 3 /\ border_width = 1 /\ screen_rect.height = 10
    /\ Placed(clients[3]) /\ calls[1].height = 1
    /\ SumHeights(n) + 2 * border_width * n = 9

\* C7: with a maximized client and n > 1 clients, the maximized client's
\* height plus the heights of the others plus 2 * border_width * n sum to
\* at most the screen height and fall short of it by less than n - 1.
C7_MaximizedHeights ==
    (maximized # None /\ n > 1) =>
        LET total == SumHeights(n) + 2 * border_width * n
        IN  /\ total <= screen_rect.height
            /\ screen_rect.height - total < n - 1

C7_Witness ==
    /\ n = 3 /\ maximized = clients[1] /\ border_width = 1
    /\ screen_rect = ExampleRect /\ ratio = ratio0
    /\ Placed(clients[2]) /\ calls[1].height = 98
    /\ height(clients[1]) = 598
    /\ SumHeights(n) + 2 * border_width * n = 800

\* C8: configure changes neither the ratio, the maximized reference, the
\* client order nor the cursor; a window that is not in the client list is
\* only hidden, a window that is in it is placed and made visible.
C8_ConfigureFrame ==
    [][last'.op = "configure" =>
          /\ UNCHANGED <<ratio, maximized, clients, current>>
          /\ last'.window \notin Members
                => calls' = <<WindowCall("hide", last'.window)>>
          /\ last'.window \in Members
                => /\ Len(calls') = 2
                   /\ calls'[1].fn = "place"
                   /\ calls'[1].window = last'.window
                   /\ calls'[2] = WindowCall("unhide", last'.window)]_vars

C8_Witness ==
    /\ last.op = "configure" /\ last.window \notin Members /\ clients # <<>>
    /\ calls = <<WindowCall("hide", last.window)>>

\* C9: with n > 1 clients, maximized or not, the first client is placed at
\* screen_rect.y, each next client at the y of the one before it plus that
\* one's height plus 2 * border_width, and the last pane ends at or above
\* screen_rect.y + screen_rect.height.
C9_Stacked ==
    n > 1 =>
        /\ y(clients[1]) = screen_rect.y
        /\ \A i \in 1..(n - 1) :
              y(clients[i + 1]) = y(clients[i]) + height(clients[i]) + 2 * border_width
        /\ y(clients[n]) + height(clients[n]) + 2 * border_width
              <= screen_rect.y + screen_rect.height

C9_Witness ==
    /\ n = 3 /\ maximized = clients[2] /\ border_width = 1
    /\ screen_rect = ExampleRect /\ ratio = ratio0
    /\ Placed(clients[3]) /\ calls[1].y = 700 /\ calls[1].height = 98
    /\ y(clients[2]) = 100 /\ height(clients[2]) = 598

\* C10: with a scalar margin m and n > 1 clients, the bottom margin of a
\* client plus the top margin of the next one is m, the first client's top
\* and the last client's bottom margin are m, and every left and right
\* margin is m; a single client has all four margins m.
C10_Margins ==
    (~margin.is_list /\ n >= 1) =>
        LET m == margin.val[1]
        IN  /\ \A i \in 1..(n - 1) :
                  margin_size(clients[i])[3] + margin_size(clients[i + 1])[1] = m
            /\ margin_size(clients[1])[1] = m
            /\ margin_size(clients[n])[3] = m
            /\ \A i \in 1..n :
                  margin_size(clients[i])[2] = m /\ margin_size(clients[i])[4] = m
            /\ n = 1 => margin_size(clients[1]) = <<m, m, m, m>>

C10_Witness ==
    /\ ~margin.is_list /\ margin.val[1] = 3 /\ n = 3
    /\ Placed(clients[2]) /\ calls[1].margin = <<2, 3, 1, 3>>

====
